---- MODULE Spec2Model ----
(***************************************************************************)
(* A model of the elastic hash table of hash.go: the level layout built by *)
(* clear, the probe sequence, Insert and Get.                              *)
(*                                                                         *)
(* Floating point.  The code computes loads and probe limits in float64.   *)
(* The model computes the same numbers exactly over the integers: delta is *)
(* a fraction <<num, den>>, floor(c*log2(a/b)) is the largest n with       *)
(* 2^n * b^c <= a^c, and a comparison of two quotients is a comparison of  *)
(* cross products.  The deltas of the model (1/10, 3/4, 9/10) and its      *)
(* level sizes are ones for which the float64 results equal the exact      *)
(* ones.                                                                   *)
(*                                                                         *)
(* Hashing.  HashKey hashes with a zero maphash.Hash, which seeds itself   *)
(* at random on first use, so every call of HashKey returns a fresh        *)
(* pseudo-random value, whatever the key: the model draws the value of     *)
(* each call from HashKey(key), the same set for every key.                *)
(***************************************************************************)
EXTENDS Integers, Sequences, FiniteSets

\* ---------------------------------------------------------------- bounds
MaxCapacity == 10
NumKeys == 2
MaxValue == 2
MaxHash == 4

\* The test scenarios of hash_test.go use the keys key1 .. key4, key i with
\* the value i.
ScenarioNumKeys == 4

Keys == 1..NumKeys
ScenarioKeys == 1..ScenarioNumKeys
AllKeys == Keys \cup ScenarioKeys
Values == 1..MaxValue
Capacities == 1..MaxCapacity
\* delta as a fraction <<numerator, denominator>>, 0 < delta < 1
Deltas == {<<1, 10>>, <<3, 4>>, <<9, 10>>}

\* ------------------------------------------------------------- constants
\* threshold = 0.25, as the fraction ThresholdNum / ThresholdDen
ThresholdNum == 1
ThresholdDen == 4
\* the tuning constant c set by NewHashTable
c == 4
\* The zero value of V (int) that Get returns for a key it does not find.
ZeroValue == 0
\* int64(NaN): the probe limit of a level of size 0 (load = 0/0).  Go leaves
\* the result of this conversion to the implementation; on amd64 it is
\* the smallest int64.  TLC's integers are 32 bits wide, so the model keeps a
\* negative number for it: only its sign is used, a range over n <= 0 runs
\* zero times.
NaNToInt64 == -1

OutOfSpaceErr == "OutOfSpaceErr"
FailedToInsertErr == "FailedToInsertErr"
NoErr == "nil"
\* The run-time panic of `% size` on a level of size 0: the call never returns.
DivideErr == "integer divide by zero"

\* ------------------------------------------------------------ arithmetic
Max(a, b) == IF a >= b THEN a ELSE b
Min(a, b) == IF a <= b THEN a ELSE b

RECURSIVE Pow(_, _)
Pow(b, n) == IF n = 0 THEN 1 ELSE b * Pow(b, n - 1)

\* floor(log2(n)) for n >= 1
RECURSIVE Log2Floor(_)
Log2Floor(n) == IF n < 2 THEN 0 ELSE 1 + Log2Floor(n \div 2)

\* floor(c * log2(a / b)) for a >= b >= 1: the largest n with 2^n * b^c <= a^c.
\* FloorCLog2From(p, q, n) is called with p = 2^n * b^c and q = a^c.
RECURSIVE FloorCLog2From(_, _, _)
FloorCLog2From(p, q, n) ==
    IF 2 * p <= q THEN FloorCLog2From(2 * p, q, n + 1) ELSE n
FloorCLog2(a, b) == FloorCLog2From(Pow(b, c), Pow(a, c), 0)

\* ------------------------------------------------------------------ clear
\* numLevels := math.Max(1, math.Floor(math.Log2(float64(ht.capacity))))
numLevels(capacity) == Max(1, Log2Floor(capacity))

\* The loop of clear from iteration i on: the sizes of levels i .. numLevels-2.
RECURSIVE sizesFrom(_, _, _)
sizesFrom(i, remaining, L) ==
    IF i >= L - 1 THEN <<>>
    ELSE LET size == Max(1, remaining \div Pow(2, L - i))
         IN  <<size>> \o sizesFrom(i + 1, remaining - size, L)
sizes(capacity) == sizesFrom(0, capacity, numLevels(capacity))

\* An empty slot (a nil *entry) and an entry.
nil == [used |-> FALSE, key |-> 0, value |-> 0]
entry(k, v) == [used |-> TRUE, key |-> k, value |-> v]

\* ht.levels after clear: numLevels slices, of which only the first
\* len(sizes) = numLevels-1 are made; the last one stays nil, of length 0.
clearLevels(capacity) ==
    LET L == numLevels(capacity)
        s == sizes(capacity)
    IN  [i \in 1..L |-> IF i <= Len(s) THEN [j \in 1..s[i] |-> nil] ELSE <<>>]
clearOccupancies(capacity) == [i \in 1..numLevels(capacity) |-> 0]

\* ----------------------------------------------------------------- maxLen
\* maxLen with the slack forgotten.
maxLenNoSlack(capacity, delta) == capacity

\* ht.capacity - int(ht.delta*float64(ht.capacity))
maxLen(capacity, delta) == capacity - ((delta[1] * capacity) \div delta[2])

\* ---------------------------------------------------------------- hashing
\* HashKey(k) & 0xFFFFFFFF: the values one call of HashKey may return, kept
\* below 2^32 by the mask.  Every call builds a new maphash.Hash with a seed
\* of its own, so the set does not depend on the key and two calls on the
\* same key are independent draws from it.  probe uses the value modulo the
\* size of a level only, and 0..MaxHash holds every residue for every level
\* of the tables built here (at most MaxHash + 1 slots), so each attempt can
\* hit each slot, as with the 2^32 values of the code.
HashKey(k) == 0..MaxHash

\* int(int64(masked)+j*j) % size
probe(masked, j, size) == (masked + j * j) % size

\* ------------------------------------------------------ loads and limits
\* load > ht.delta/2, load = freeOnLevel/size (false for the NaN of size 0)
loadAboveHalfDelta(size, freeOnLevel, delta) ==
    size > 0 /\ 2 * delta[2] * freeOnLevel > delta[1] * size

\* A level passed over only when it has no free slot left.
loadExhausted(size, freeOnLevel, delta) == size > 0 /\ freeOnLevel = 0

\* load <= ht.delta/2 (false for the NaN of size 0)
loadAtMostHalfDelta(size, freeOnLevel, delta) ==
    size > 0 /\ 2 * delta[2] * freeOnLevel <= delta[1] * size

\* nextLoad > threshold, nextLoad = 0 when the next level has length 0
nextLoadAboveThreshold(nextSize, nextFreeOnLevel) ==
    nextSize > 0 /\ ThresholdDen * nextFreeOnLevel > ThresholdNum * nextSize

\* A limit whose max(1, ...) also covers the NaN of a level without slots.
probeLimitAtLeastOne(size, occupancy, delta) ==
    IF size = 0 THEN 1
    ELSE LET freeOnLevel == size - occupancy
             byDelta == FloorCLog2(delta[2], delta[1])
             byLoad == IF freeOnLevel = 0 THEN byDelta
                       ELSE FloorCLog2(size, freeOnLevel)
         IN  Max(1, Min(byLoad, byDelta))

\* A limit that leaves out the cap log2(1/delta).
probeLimitUncapped(size, occupancy, delta) ==
    IF size = 0 THEN NaNToInt64
    ELSE LET freeOnLevel == size - occupancy
             byDelta == FloorCLog2(delta[2], delta[1])
             byLoad == IF freeOnLevel = 0 THEN byDelta
                       ELSE FloorCLog2(size, freeOnLevel)
         IN  Max(1, byLoad)

\* A limit computed from the used fraction of the level instead of the free one.
probeLimitByFill(size, occupancy, delta) ==
    IF size = 0 THEN NaNToInt64
    ELSE LET byDelta == FloorCLog2(delta[2], delta[1])
             byLoad == IF occupancy = 0 THEN byDelta
                       ELSE FloorCLog2(size, occupancy)
         IN  Max(1, Min(byLoad, byDelta))

\* int64(math.Max(1, c*math.Min(math.Log2(math.Max(1/load, 0)), math.Log2(1/delta))))
\* size = 0: load is NaN and so is the whole expression.
\* occupancy = size: load = 0, 1/load = +Inf, the minimum is log2(1/delta).
probeLimit(size, occupancy, delta) ==
    IF size = 0 THEN NaNToInt64
    ELSE LET freeOnLevel == size - occupancy
             byDelta == FloorCLog2(delta[2], delta[1])
             byLoad == IF freeOnLevel = 0 THEN byDelta
                       ELSE FloorCLog2(size, freeOnLevel)
         IN  Max(1, Min(byLoad, byDelta))

\* ----------------------------------------------------------------- Insert
\* A table t is a record [capacity, delta, items, levels, occupanciesByLevel].
\* Levels and slots are counted from 0 in the code and from 1 in the
\* sequences of the model: level i of the code is t.levels[i + 1].
\* The outcomes of a call are records [err, levels, occupanciesByLevel, items,
\* probed, placed], probed being the set of levels (counted from 0) on which
\* probe was called and placed the <<level, slot, attempt>> of the write
\* l[idx] = &entry{...} (all counted from 0), or <<>> when nothing was written.

\* A failed Insert that has counted the entry before probing.
insertDoneCounted(t, err, probed) ==
    [err |-> err, levels |-> t.levels,
     occupanciesByLevel |-> t.occupanciesByLevel, items |-> t.items + 1,
     probed |-> probed, placed |-> <<>>]

\* The returns of OutOfSpaceErr and FailedToInsertErr: nothing is written.
insertDone(t, err, probed) ==
    [err |-> err, levels |-> t.levels,
     occupanciesByLevel |-> t.occupanciesByLevel, items |-> t.items,
     probed |-> probed, placed |-> <<>>]

\* A placement that also brings the entries already stored under the key up
\* to the new value.
insertPlaceUpdating(t, i, idx, j, key, value, probed) ==
    [err |-> NoErr,
     levels |-> [a \in 1..Len(t.levels) |->
                    [n \in 1..Len(t.levels[a]) |->
                        IF \/ a = i /\ n = idx + 1
                           \/ t.levels[a][n].used /\ t.levels[a][n].key = key
                        THEN entry(key, value) ELSE t.levels[a][n]]],
     occupanciesByLevel |-> [t.occupanciesByLevel EXCEPT ![i] = @ + 1],
     items |-> t.items + 1,
     probed |-> probed \cup {i - 1},
     placed |-> <<i - 1, idx, j>>]

\* A placement that forgets the level's occupancy counter.
insertPlaceUncounted(t, i, idx, j, key, value, probed) ==
    [err |-> NoErr,
     levels |-> [t.levels EXCEPT ![i][idx + 1] = entry(key, value)],
     occupanciesByLevel |-> t.occupanciesByLevel,
     items |-> t.items + 1,
     probed |-> probed \cup {i - 1},
     placed |-> <<i - 1, idx, j>>]

\* l[idx] = &entry{key, value}; occupanciesByLevel[i] += 1; items += 1; return nil
insertPlace(t, i, idx, j, key, value, probed) ==
    [err |-> NoErr,
     levels |-> [t.levels EXCEPT ![i][idx + 1] = entry(key, value)],
     occupanciesByLevel |-> [t.occupanciesByLevel EXCEPT ![i] = @ + 1],
     items |-> t.items + 1,
     probed |-> probed \cup {i - 1},
     placed |-> <<i - 1, idx, j>>]

\* The slots attempt j may probe on a level of that size: one for each value
\* HashKey may return.
hit(key, j, size) == {probe(masked, j, size) : masked \in HashKey(key)}

RECURSIVE insertLevel(_, _, _, _, _)

\* A probe loop that does not return at the first empty slot it hits: any of
\* the attempts may place the entry.
insertProbeAnyAttempt(t, key, value, i, probed) ==
    LET l == t.levels[i]
        size == Len(l)
        limit == probeLimit(size, t.occupanciesByLevel[i], t.delta)
        placedAt == {at \in (0..(size - 1)) \X (0..(limit - 1)) :
                        at[1] \in hit(key, at[2], size) /\ ~l[at[1] + 1].used}
    IN  {insertPlace(t, i, at[1], at[2], key, value, probed) : at \in placedAt}
        \cup insertLevel(t, key, value, i + 1,
                         IF limit > 0 THEN probed \cup {i - 1} ELSE probed)

\* for j := range probeLimit { idx := probe(key, j, size); if l[idx] == nil {...} }
\* and then the levels after i.  Attempt j is made when every attempt before
\* it found a used slot; it places the entry in the empty slot it hits, and
\* the loop ends without placing when every attempt found a used slot.
insertProbe(t, key, value, i, probed) ==
    LET l == t.levels[i]
        size == Len(l)
        limit == probeLimit(size, t.occupanciesByLevel[i], t.delta)
        \* the attempts that cannot find a used slot: the loop ends at the first
        sure == {j \in 0..(limit - 1) :
                    \A idx \in hit(key, j, size) : ~l[idx + 1].used}
        made == {j \in 0..(limit - 1) : \A before \in sure : j <= before}
        placedAt == {at \in (0..(size - 1)) \X made :
                        at[1] \in hit(key, at[2], size) /\ ~l[at[1] + 1].used}
    IN  IF limit > 0 /\ size = 0
        THEN {insertDone(t, DivideErr, probed \cup {i - 1})}
        ELSE {insertPlace(t, i, at[1], at[2], key, value, probed) :
                  at \in placedAt}
             \cup (IF sure = {}
                   THEN insertLevel(t, key, value, i + 1,
                                    IF limit > 0 THEN probed \cup {i - 1}
                                    ELSE probed)
                   ELSE {})

\* A choice of level that probes a level only when the next one has room.
insertLevelNextHasRoom(t, key, value, i, probed) ==
    IF i > Len(t.levels) THEN {insertDone(t, FailedToInsertErr, probed)}
    ELSE LET size == Len(t.levels[i])
             freeOnLevel == size - t.occupanciesByLevel[i]
         IN  IF i < Len(t.levels)
             THEN LET nextSize == Len(t.levels[i + 1])
                      nextFree == nextSize - t.occupanciesByLevel[i + 1]
                  IN  IF loadAboveHalfDelta(size, freeOnLevel, t.delta)
                         /\ nextLoadAboveThreshold(nextSize, nextFree)
                      THEN insertProbe(t, key, value, i, probed)
                      ELSE insertLevel(t, key, value, i + 1, probed)
             ELSE insertProbe(t, key, value, i, probed)

\* The body of `for i, l := range ht.levels` from level i on.
insertLevel(t, key, value, i, probed) ==
    IF i > Len(t.levels) THEN {insertDone(t, FailedToInsertErr, probed)}
    ELSE LET size == Len(t.levels[i])
             freeOnLevel == size - t.occupanciesByLevel[i]
         IN  IF i < Len(t.levels)
             THEN LET nextSize == Len(t.levels[i + 1])
                      nextFree == nextSize - t.occupanciesByLevel[i + 1]
                  IN  IF loadAboveHalfDelta(size, freeOnLevel, t.delta)
                         /\ nextLoadAboveThreshold(nextSize, nextFree)
                      THEN insertProbe(t, key, value, i, probed)
                      ELSE IF loadAtMostHalfDelta(size, freeOnLevel, t.delta)
                      THEN insertLevel(t, key, value, i + 1, probed)
                      ELSE IF ~nextLoadAboveThreshold(nextSize, nextFree)
                      THEN insertProbe(t, key, value, i, probed)
                      ELSE insertLevel(t, key, value, i + 1, probed)
             ELSE insertProbe(t, key, value, i, probed)

\* Insert without its capacity guard.
InsertUnguarded(t, key, value) == insertLevel(t, key, value, 1, {})

\* HashTable.Insert: the set of outcomes of Insert(key, value) on table t.
Insert(t, key, value) ==
    IF t.items >= maxLen(t.capacity, t.delta)
    THEN {insertDone(t, OutOfSpaceErr, {})}
    ELSE insertLevel(t, key, value, 1, {})

\* -------------------------------------------------------------------- Get
\* The outcomes of a call are records [value, found, probed, err], err being
\* NoErr when the call returned.
\* A match that does not compare the keys.
keyMatchesAny(slot, key) == slot.used

\* level[idx] != nil && level[idx].key == key
keyMatches(slot, key) == slot.used /\ slot.key = key

\* The loop over the levels from level i on.  On a level, attempt j is made
\* when no attempt before it returned, which is when each of them could hit a
\* slot that is empty or holds another key.
RECURSIVE getLevel(_, _, _, _)
getLevel(t, key, i, probed) ==
    IF i > Len(t.levels)
    THEN {[value |-> ZeroValue, found |-> FALSE, probed |-> probed,
           err |-> NoErr]}
    ELSE LET level == t.levels[i]
             size == Len(level)
             limit == probeLimit(size, t.occupanciesByLevel[i], t.delta)
             match(idx) == keyMatches(level[idx + 1], key)
             \* the attempts that cannot miss: the loop ends at the first
             sure == {j \in 0..(limit - 1) :
                         \A idx \in hit(key, j, size) : match(idx)}
             made == {j \in 0..(limit - 1) : \A before \in sure : j <= before}
             foundAt == {idx \in 0..(size - 1) :
                            \E j \in made : idx \in hit(key, j, size) /\ match(idx)}
         IN  IF limit > 0 /\ size = 0
             THEN {[value |-> ZeroValue, found |-> FALSE,
                    probed |-> probed \cup {i - 1}, err |-> DivideErr]}
             ELSE {[value |-> level[idx + 1].value, found |-> TRUE,
                    probed |-> probed \cup {i - 1}, err |-> NoErr] :
                       idx \in foundAt}
                  \cup (IF sure = {}
                        THEN getLevel(t, key, i + 1,
                                      IF limit > 0 THEN probed \cup {i - 1}
                                      ELSE probed)
                        ELSE {})

\* HashTable.Get: the set of outcomes of Get(key) on table t.
Get(t, key) == getLevel(t, key, 1, {})

\* ------------------------------------------------------------------ state
VARIABLES
    capacity,            \* ht.capacity
    delta,               \* ht.delta, a fraction <<num, den>>
    items,               \* ht.items
    levels,              \* ht.levels
    occupanciesByLevel,  \* ht.occupanciesByLevel
    ret,                 \* the last call and what it returned
    succeeded,           \* history: per key, the number of successful Inserts
    written,             \* history: per key, the values of its successful Inserts
    latest,              \* history: per key, the value of its last successful Insert
    script               \* the keys inserted so far by a test scenario

table == <<capacity, delta, items, levels, occupanciesByLevel>>
vars == <<capacity, delta, items, levels, occupanciesByLevel, ret,
          succeeded, written, latest, script>>

ht == [capacity |-> capacity, delta |-> delta, items |-> items,
       levels |-> levels, occupanciesByLevel |-> occupanciesByLevel]

noCall == [op |-> "none", key |-> 0, value |-> 0, err |-> NoErr,
           found |-> FALSE, probed |-> {}, placed |-> <<>>]

\* NewHashTable(cap, d): the fields set and clear() called.
NewHashTable(cap, d) ==
    /\ capacity = cap
    /\ delta = d
    /\ items = 0
    /\ levels = clearLevels(cap)
    /\ occupanciesByLevel = clearOccupancies(cap)
    /\ ret = noCall
    /\ succeeded = [k \in AllKeys |-> 0]
    /\ written = [k \in AllKeys |-> {}]
    /\ latest = [k \in AllKeys |-> ZeroValue]
    /\ script = <<>>

\* A call ht.Insert(key, value).
InsertCall(key, value) ==
    \E out \in Insert(ht, key, value) :
        /\ levels' = out.levels
        /\ occupanciesByLevel' = out.occupanciesByLevel
        /\ items' = out.items
        /\ ret' = [op |-> "Insert", key |-> key, value |-> value,
                   err |-> out.err, found |-> FALSE, probed |-> out.probed,
                   placed |-> out.placed]
        /\ succeeded' = IF out.err = NoErr
                        THEN [succeeded EXCEPT ![key] = @ + 1] ELSE succeeded
        /\ written' = IF out.err = NoErr
                      THEN [written EXCEPT ![key] = @ \cup {value}] ELSE written
        /\ latest' = IF out.err = NoErr
                     THEN [latest EXCEPT ![key] = value] ELSE latest
        /\ UNCHANGED <<capacity, delta>>

\* A Get that counts its lookup into items.
GetCallCounting(key) ==
    \E out \in Get(ht, key) :
        /\ ret' = [op |-> "Get", key |-> key, value |-> out.value,
                   err |-> out.err, found |-> out.found, probed |-> out.probed,
                   placed |-> <<>>]
        /\ items' = items + 1
        /\ UNCHANGED <<capacity, delta, levels, occupanciesByLevel,
                       succeeded, written, latest>>

\* A call ht.Get(key).
GetCall(key) ==
    \E out \in Get(ht, key) :
        /\ ret' = [op |-> "Get", key |-> key, value |-> out.value,
                   err |-> out.err, found |-> out.found, probed |-> out.probed,
                   placed |-> <<>>]
        /\ UNCHANGED <<capacity, delta, items, levels, occupanciesByLevel,
                       succeeded, written, latest>>

\* ---------------------------------------------------------- specifications
\* Any table, any sequence of calls.
Init == \E cap \in Capacities, d \in Deltas : NewHashTable(cap, d)

DoInsert == \E key \in Keys, value \in Values :
                InsertCall(key, value) /\ UNCHANGED script

DoGet == \E key \in Keys : GetCall(key) /\ UNCHANGED script

Next == DoInsert \/ DoGet

Spec == Init /\ [][Next]_vars

\* The scenarios of TestHashTable: a fresh table of capacity 10 or 3 and
\* delta 0.1, Inserts of distinct keys (three for capacity 10, four for
\* capacity 3) that stop at the first error, and then Gets.
ScenarioCapacities == {3, 10}
ScenarioDelta == <<1, 10>>
ScenarioInserts(cap) == IF cap = 3 THEN 4 ELSE 3
Range(seq) == {seq[n] : n \in 1..Len(seq)}

InitScenario == \E cap \in ScenarioCapacities : NewHashTable(cap, ScenarioDelta)

ScenarioInsert ==
    /\ ret.op \in {"none", "Insert"}
    /\ ret.err = NoErr
    /\ Len(script) < ScenarioInserts(capacity)
    /\ \E key \in ScenarioKeys \ Range(script) :
           InsertCall(key, key) /\ script' = Append(script, key)

ScenarioGet == \E key \in ScenarioKeys : GetCall(key) /\ UNCHANGED script

NextScenario == ScenarioInsert \/ ScenarioGet

SpecScenario == InitScenario /\ [][NextScenario]_vars

\* Larger tables: more levels and larger ones.  The choice of the level and
\* the probe limits look at sizes and occupancies only, so one key is
\* inserted, with one value; Gets ask for it and for keys never inserted.
MaxWideCapacity == 24
WideCapacities == 1..MaxWideCapacity

InitWide == \E cap \in WideCapacities, d \in Deltas : NewHashTable(cap, d)

WideInsert == InsertCall(1, 1) /\ UNCHANGED script

WideGet == \E key \in Keys : GetCall(key) /\ UNCHANGED script

NextWide == WideInsert \/ WideGet

SpecWide == InitWide /\ [][NextWide]_vars

\* ------------------------------------------------------------------ claims
\* What the claims speak of.
usedSlots(level) == Cardinality({n \in 1..Len(level) : level[n].used})
RECURSIVE SumSeq(_)
SumSeq(seq) == IF seq = <<>> THEN 0 ELSE Head(seq) + SumSeq(Tail(seq))
totalSlots == SumSeq([i \in 1..Len(levels) |-> Len(levels[i])])
\* capacity - floor(delta * capacity), written out
slackedCapacity == capacity - ((delta[1] * capacity) \div delta[2])

\* C1: a Get of a key that some Insert has stored returns (v', true) with v'
\* a value stored under that key by a successful Insert.
C1_GetFindsInsertedKey ==
    (ret.op = "Get" /\ succeeded[ret.key] >= 1)
        => (ret.found /\ ret.value \in written[ret.key])

\* C2: a Get of a key that no Insert has ever stored returns (zero value,
\* false), whatever else the table holds.
C2_GetOfAbsentKey ==
    (ret.op = "Get" /\ succeeded[ret.key] = 0)
        => (~ret.found /\ ret.value = ZeroValue)

\* A Get of a never stored key on a table whose three slots all hold another key.
C2_Witness ==
    /\ ret.op = "Get"
    /\ succeeded[ret.key] = 0
    /\ items = 3
    /\ ~ret.found

\* C3: items never exceeds capacity - floor(delta * capacity).
C3_ItemsAtMostMaxLen == items <= slackedCapacity

\* A successful Insert has brought items to the bound on a table that still
\* has empty slots.
C3_Witness ==
    /\ ret.op = "Insert"
    /\ ret.err = NoErr
    /\ items = slackedCapacity
    /\ items < totalSlots

\* C4: an Insert that returns OutOfSpaceErr or FailedToInsertErr changes no
\* slot, no occupancy counter and not items.
C4_FailedInsertChangesNothing ==
    [][(ret'.op = "Insert" /\ ret'.err # NoErr)
          => (levels' = levels /\ occupanciesByLevel' = occupanciesByLevel
              /\ items' = items)]_vars

\* An Insert has failed for want of a free probed slot on a table that holds
\* entries and is below its bound.
C4_Witness ==
    /\ ret.op = "Insert"
    /\ ret.err = FailedToInsertErr
    /\ items >= 1
    /\ items < slackedCapacity

\* C5: an Insert called with items >= maxLen returns OutOfSpaceErr and probes
\* no level; an Insert returns FailedToInsertErr only when called with
\* items < maxLen.
C5_CapacityGuardFirst ==
    [][ret'.op = "Insert"
          => /\ (items >= slackedCapacity)
                    => (ret'.err = OutOfSpaceErr /\ ret'.probed = {})
             /\ (ret'.err = FailedToInsertErr) => (items < slackedCapacity)]_vars

\* An Insert has been refused with OutOfSpaceErr although slots are empty.
C5_Witness ==
    /\ ret.op = "Insert"
    /\ ret.err = OutOfSpaceErr
    /\ ret.probed = {}
    /\ items < totalSlots

\* C6: on a fresh table of capacity 10 and delta 0.1 the Inserts of three
\* distinct keys all succeed, and then a Get of each of the three returns
\* (its value, true) and a Get of a fourth key returns (0, false).
C6_BasicInsertAndGet ==
    capacity = 10 =>
        /\ (ret.op = "Insert" /\ Len(script) <= 3) => ret.err = NoErr
        /\ (ret.op = "Get" /\ Len(script) = 3) =>
               IF ret.key \in Range(script)
               THEN ret.found /\ ret.value = ret.key
               ELSE ~ret.found /\ ret.value = ZeroValue

\* C7: on a fresh table of capacity 3 and delta 0.1 the Inserts of three
\* distinct keys succeed and bring items to 3, the Insert of a fourth fails
\* with FailedToInsertErr, and then a Get of each of the first three keys
\* returns (its value, true).
C7_InsertIntoFullTable ==
    capacity = 3 =>
        /\ (ret.op = "Insert" /\ Len(script) <= 3)
               => (ret.err = NoErr /\ items = Len(script))
        /\ (ret.op = "Insert" /\ Len(script) = 4)
               => (ret.err = FailedToInsertErr /\ items = 3)
        /\ (ret.op = "Get" /\ ret.key \in Range(SubSeq(script, 1, 3)))
               => (ret.found /\ ret.value = ret.key)

\* C8: when two Inserts of a key have succeeded, a Get of the key returns
\* (v, true) with v the value of the most recent of them.
C8_LastWriteWins ==
    (ret.op = "Get" /\ succeeded[ret.key] >= 2)
        => (ret.found /\ ret.value = latest[ret.key])

\* C9: the last level has the size the levels before it leave of the
\* capacity, so that the level sizes sum to the capacity.
C9_LevelSizesSumToCapacity ==
    /\ Len(levels) = numLevels(capacity)
    /\ totalSlots = capacity

\* C10: every occupancy counter is the number of used slots of its level, and
\* items is the sum of the occupancy counters.
C10_CountersMatchSlots ==
    /\ Len(occupanciesByLevel) = Len(levels)
    /\ \A i \in 1..Len(levels) : occupanciesByLevel[i] = usedSlots(levels[i])
    /\ items = SumSeq(occupanciesByLevel)

\* Entries on two levels, one of them not full.
C10_Witness ==
    /\ Len(levels) >= 3
    /\ occupanciesByLevel[1] = 1
    /\ occupanciesByLevel[2] = 1
    /\ Len(levels[2]) = 2
    /\ items = 2

\* The probe limit of level i (counted from 1) for the sizes and occupancies
\* of the current state.
limitNow(i) == probeLimit(Len(levels[i]), occupanciesByLevel[i], delta)

\* C11: on every step and for every level, the probe limit computed from the
\* level's occupancy after the step is at least the limit computed before it,
\* so the limit a later Get computes is never below the limit an earlier
\* Insert computed when it placed an entry.
C11_ProbeLimitNeverDecreases ==
    [][\A i \in 1..Len(levels) :
           probeLimit(Len(levels'[i]), occupanciesByLevel'[i], delta')
               >= limitNow(i)]_vars

\* A Get has probed a level that Inserts have filled completely and whose
\* limit is now above the limit it had when it was empty.
C11_Witness ==
    /\ ret.op = "Get"
    /\ \E i \in 1..Len(levels) :
           /\ Len(levels[i]) >= 2
           /\ occupanciesByLevel[i] = Len(levels[i])
           /\ (i - 1) \in ret.probed
           /\ limitNow(i) > probeLimit(Len(levels[i]), 0, delta)

\* max(1, floor(c * log2(1/delta))), the most attempts any level is given.
limitCap == Max(1, FloorCLog2(delta[2], delta[1]))

\* C12, as stated: on a level of a given size, fewer stored entries (more
\* free space) never mean fewer attempts, o1 < o2 giving
\* probeLimit(o1) >= probeLimit(o2), and no limit exceeds
\* max(1, floor(c * log2(1/delta))).
C12_MoreFreeMoreAttempts ==
    \A i \in 1..Len(levels) :
        Len(levels[i]) >= 1 =>
            LET limit == [o \in 0..Len(levels[i]) |->
                             probeLimit(Len(levels[i]), o, delta)]
            IN  \A o1, o2 \in 0..Len(levels[i]) :
                    /\ o1 < o2 => limit[o1] >= limit[o2]
                    /\ limit[o1] <= limitCap

\* C12, amended: on a level of a given size, more stored entries (less free
\* space) never mean fewer attempts, o1 < o2 giving
\* probeLimit(o1) <= probeLimit(o2), and no limit exceeds
\* max(1, floor(c * log2(1/delta))).
C12_LessFreeMoreAttempts ==
    \A i \in 1..Len(levels) :
        Len(levels[i]) >= 1 =>
            LET limit == [o \in 0..Len(levels[i]) |->
                             probeLimit(Len(levels[i]), o, delta)]
            IN  \A o1, o2 \in 0..Len(levels[i]) :
                    /\ o1 < o2 => limit[o1] <= limit[o2]
                    /\ limit[o1] <= limitCap

\* An Insert has just placed an entry in a level of three slots or more whose
\* limit thereby rose, and the level above it, now full, is at the cap.
C12_Witness ==
    /\ ret.op = "Insert"
    /\ ret.placed # <<>>
    /\ LET i == ret.placed[1] + 1
       IN  /\ i >= 2
           /\ Len(levels[i]) >= 3
           /\ limitNow(i) > probeLimit(Len(levels[i]),
                                       occupanciesByLevel[i] - 1, delta)
           /\ occupanciesByLevel[i - 1] = Len(levels[i - 1])
           /\ limitNow(i - 1) = limitCap
           /\ limitCap > 1

\* Level i (counted from 1) is one Insert passes without probing: it is not
\* the last level and its free fraction is at most delta/2.
skippedNow(i) ==
    /\ i < Len(levels)
    /\ 2 * delta[2] * (Len(levels[i]) - occupanciesByLevel[i])
           <= delta[1] * Len(levels[i])

\* Attempt j for that key on level i can hit a used slot.
canHitUsed(key, j, i) ==
    \E idx \in hit(key, j, Len(levels[i])) : levels[i][idx + 1].used

\* C13: a successful Insert writes (key, value) into exactly one slot, which
\* was empty; the slot is in a level that is not skipped, is hit by an attempt
\* below that level's probe limit, and every earlier attempt on that level
\* and every attempt on the levels probed before it hit a used slot; the
\* occupancy of that level and items grow by 1 and every other slot and
\* counter is unchanged.
C13_InsertWritesOneSlot ==
    [][(ret'.op = "Insert" /\ ret'.err = NoErr) =>
          /\ ret'.placed # <<>>
          /\ LET i == ret'.placed[1] + 1
                 n == ret'.placed[2] + 1
                 j == ret'.placed[3]
             IN  /\ i \in 1..Len(levels)
                 /\ n \in 1..Len(levels[i])
                 /\ ~levels[i][n].used
                 /\ levels' = [levels EXCEPT
                                  ![i][n] = entry(ret'.key, ret'.value)]
                 /\ occupanciesByLevel' =
                        [occupanciesByLevel EXCEPT ![i] = @ + 1]
                 /\ items' = items + 1
                 /\ capacity' = capacity /\ delta' = delta
                 /\ ~skippedNow(i)
                 /\ j \in 0..(limitNow(i) - 1)
                 /\ (n - 1) \in hit(ret'.key, j, Len(levels[i]))
                 /\ \A before \in 0..(j - 1) : canHitUsed(ret'.key, before, i)
                 /\ ret'.probed = {i2 - 1 : i2 \in {i3 \in 1..i : ~skippedNow(i3)}}
                 /\ \A i2 \in 1..(i - 1) :
                        ~skippedNow(i2) =>
                            \A j2 \in 0..(limitNow(i2) - 1) :
                                canHitUsed(ret'.key, j2, i2)]_vars

\* An Insert has placed its entry at a second or later attempt, in a level
\* after one that it probed without finding an empty slot.
C13_Witness ==
    /\ ret.op = "Insert"
    /\ ret.err = NoErr
    /\ ret.placed # <<>>
    /\ ret.placed[3] >= 1
    /\ \E before \in ret.probed : before < ret.placed[1]

\* C14: an Insert never probes, and never writes into, a level that is not
\* the last and whose free fraction is at most delta/2 when the call is made,
\* whether or not the level has empty slots; and it never probes a level
\* that has no empty slot.
C14_SaturatedLevelSkipped ==
    [][ret'.op = "Insert" =>
          \A i \in 1..Len(levels) :
              /\ skippedNow(i) =>
                     (i - 1) \notin ret'.probed /\ levels'[i] = levels[i]
              /\ occupanciesByLevel[i] = Len(levels[i]) =>
                     (i - 1) \notin ret'.probed]_vars

\* An Insert has failed on a table below its capacity limit after passing,
\* without a probe, a level that still has an empty slot.
C14_Witness ==
    /\ ret.op = "Insert"
    /\ ret.err = FailedToInsertErr
    /\ \E i \in 1..Len(levels) :
           /\ skippedNow(i)
           /\ occupanciesByLevel[i] < Len(levels[i])
           /\ (i - 1) \notin ret.probed

\* C15: an Insert that gets as far as the last level probes it, for at least
\* one attempt: an Insert that returns FailedToInsertErr, which has passed
\* every level, has called probe on the last one.
C15_LastLevelAlwaysProbed ==
    (ret.op = "Insert" /\ ret.err = FailedToInsertErr)
        => (Len(levels) - 1) \in ret.probed

\* C16: every call returns: an Insert with nil, OutOfSpaceErr or
\* FailedToInsertErr and a Get with a value and a flag, never ending in the
\* division by zero of `% size`; probe is only called on levels that have at
\* least one slot, and the slot an Insert writes is within its level.
C16_NoAbruptTermination ==
    /\ ret.op = "Insert" =>
           ret.err \in {NoErr, OutOfSpaceErr, FailedToInsertErr}
    /\ ret.op = "Get" => ret.err = NoErr
    /\ \A lv \in ret.probed :
           lv \in 0..(Len(levels) - 1) /\ Len(levels[lv + 1]) >= 1
    /\ ret.placed # <<>> =>
           ret.placed[2] \in 0..(Len(levels[ret.placed[1] + 1]) - 1)

\* A Get has gone through every level of a table holding entries, the last
\* level without slots included, and returned not found.
C16_Witness ==
    /\ ret.op = "Get"
    /\ ret.err = NoErr
    /\ ~ret.found
    /\ items >= 1
    /\ Len(levels) >= 3
    /\ Len(levels[Len(levels)]) = 0
    /\ ret.probed = 0..(Len(levels) - 2)

\* C17: on every step, every slot that holds an entry holds the same key and
\* value after the step, an Insert of a key that is already stored included;
\* the number of levels and the size of every level do not change.
C17_EntriesAndLayoutPermanent ==
    [][/\ Len(levels') = Len(levels)
       /\ \A i \in 1..Len(levels) :
              /\ Len(levels'[i]) = Len(levels[i])
              /\ \A n \in 1..Len(levels[i]) :
                     levels[i][n].used => levels'[i][n] = levels[i][n]]_vars

\* A key has been inserted twice with different values, and both entries
\* are in the table.
C17_Witness ==
    /\ ret.op = "Insert"
    /\ ret.err = NoErr
    /\ succeeded[ret.key] >= 2
    /\ \E i1, i2 \in 1..Len(levels) :
           \E n1 \in 1..Len(levels[i1]), n2 \in 1..Len(levels[i2]) :
               /\ levels[i1][n1].used /\ levels[i2][n2].used
               /\ levels[i1][n1].key = ret.key /\ levels[i2][n2].key = ret.key
               /\ levels[i1][n1].value # levels[i2][n2].value

\* C18: a Get leaves the slots, the occupancy counters, items, capacity and
\* delta as they were, and a step that changes any of them is an Insert that
\* returned nil.
C18_GetIsReadOnly ==
    [][/\ ret'.op = "Get" => table' = table
       /\ table' # table => (ret'.op = "Insert" /\ ret'.err = NoErr)]_vars

\* A Get has found a key in a table that holds several entries.
C18_Witness ==
    /\ ret.op = "Get"
    /\ ret.found
    /\ items >= 2
    /\ SumSeq(occupanciesByLevel) = items

\* C19: among the levels sized by the loop of clear(), all but the last, no
\* level is larger than the level before it.
C19_LevelSizesShrink ==
    \A i \in 1..(Len(levels) - 2) : Len(levels[i + 1]) <= Len(levels[i])

\* An Insert that never looks at the next level: it passes a level that is
\* not the last when its free fraction is at most delta/2, and probes every
\* other level it comes to, with the same probe loop.
RECURSIVE insertByOwnLoad(_, _, _, _, _)
insertByOwnLoad(t, key, value, i, probed) ==
    IF i > Len(t.levels) THEN {insertDone(t, FailedToInsertErr, probed)}
    ELSE LET l == t.levels[i]
             size == Len(l)
             limit == probeLimit(size, t.occupanciesByLevel[i], t.delta)
             passed == /\ i < Len(t.levels)
                       /\ 2 * t.delta[2] * (size - t.occupanciesByLevel[i])
                              <= t.delta[1] * size
             sure == {j \in 0..(limit - 1) :
                         \A idx \in hit(key, j, size) : ~l[idx + 1].used}
             made == {j \in 0..(limit - 1) : \A before \in sure : j <= before}
             placedAt == {at \in (0..(size - 1)) \X made :
                             at[1] \in hit(key, at[2], size) /\ ~l[at[1] + 1].used}
         IN  IF passed THEN insertByOwnLoad(t, key, value, i + 1, probed)
             ELSE {insertPlace(t, i, at[1], at[2], key, value, probed) :
                       at \in placedAt}
                  \cup (IF sure = {}
                        THEN insertByOwnLoad(t, key, value, i + 1,
                                             IF limit > 0 THEN probed \cup {i - 1}
                                             ELSE probed)
                        ELSE {})

InsertByOwnLoad(t, key, value) ==
    IF t.items >= slackedCapacity
    THEN {insertDone(t, OutOfSpaceErr, {})}
    ELSE insertByOwnLoad(t, key, value, 1, {})

\* The free fraction of level i (counted from 1), which has slots, is at
\* most the threshold 0.25.
tightNow(i) ==
    ThresholdDen * (Len(levels[i]) - occupanciesByLevel[i])
        <= ThresholdNum * Len(levels[i])

\* C20: in every reachable state, Insert of the key and value has the
\* outcomes (returned error, slots, counters, levels probed) of the Insert
\* that decides on the level's own load alone; and the last Insert has probed
\* every level it came to whose load is above delta/2, whatever the load of
\* the level after it.
C20_NextLoadHasNoEffect ==
    /\ Insert(ht, 1, 1) = InsertByOwnLoad(ht, 1, 1)
    /\ (ret.op = "Insert" /\ ret.err = FailedToInsertErr) =>
           \A i \in 1..(Len(levels) - 1) :
               (i - 1) \in ret.probed <=> ~skippedNow(i)

\* An Insert has failed after probing a level with load above delta/2 whose
\* next level has slots and is tight.
C20_Witness ==
    /\ ret.op = "Insert"
    /\ ret.err = FailedToInsertErr
    /\ \E i \in 1..(Len(levels) - 2) :
           (i - 1) \in ret.probed /\ ~skippedNow(i) /\ tightNow(i + 1)

====
